---------------------------- MODULE Spec2Model ----------------------------
(***************************************************************************)
(* Bean-sorting carousel controller (src/arduino_brain.ino).               *)
(*                                                                         *)
(* One step of the model is one call of loop(): it reads at most one       *)
(* serial line, dispatches it (handlePiCommand, then parseResLine and the  *)
(* RES handling) and then executes one case of the FSM switch.             *)
(*                                                                         *)
(* Serial lines are sequences of one-character strings, so that trim,      *)
(* startsWith, indexOf, substring and toInt are computed as the Arduino    *)
(* String class computes them.                                             *)
(***************************************************************************)
EXTENDS Integers, Sequences, FiniteSets, TLC

\* ------------------------------------------------------------------------
\* Program constants
\* ------------------------------------------------------------------------
JOG_SMALL == 5
JOG_BIG == 50
NOR_CLOSE == 0
NOR_OPEN == 70
STOP_360 == 90
FEED_SPEED == 8
T_ROLL_MS == 250
T_FEED_SETTLE_MS == 200
T_NOR_OPEN_MS == 200
WAIT_RES_TIMEOUT_MS == 8000
N_SLOTS == 24
CAPTURE_POS == 2
NORMAL_EJECT_POS == 8
DEFECT_EJECT_POS == 11
DIR_FORWARD == TRUE
STEPS_PER_REV == 3200
STEPS_CELL_BASE == STEPS_PER_REV \div N_SLOTS
STEPS_CELL_REM == STEPS_PER_REV % N_SLOTS

\* beanState encoding (comment at the declaration of beanState)
EMPTY == -1
DEFECT == 0
NORMAL == 1
CAPTURE_REQUESTED == 2
ENTERED == 3

\* ------------------------------------------------------------------------
\* Bounds of the model
\* ------------------------------------------------------------------------
\* beans fed over a run (nextBeanId is capped here)
MaxBeanId == 24
\* beans the host sends RES lines for: the first, and every HostStride-th
\* after it
MaxHostBeans == 2
\* beans fed after a re-calibration (a ZERO once beans have been fed)
MaxRerun == 2

\* ------------------------------------------------------------------------
\* State
\* ------------------------------------------------------------------------
VARIABLES
    DEBUG,          \* the build switch (#define DEBUG), fixed for a run
    st,             \* FSM state
    elapsed,        \* millis() - t0 as the last loop() call saw it
    head,
    cell_err_acc,
    beanId,
    beanState,
    nextBeanId,
    waitingBeanId,
    gate,           \* last angle written to gateNormal
    rollers,        \* last angle written to rollerA (STOP_360 = stopped)
    enabled,        \* stepper driver enable (PIN_EN low)
    tx,             \* protocol line printed by this loop() call (<<>>: none)
    pulses,         \* pulse trains issued by this loop() call: <<dir, n>>
    capCount,       \* per slot: CAP lines sent for the bean it holds
    defaulted,      \* per slot: the bean's request was resolved by timeout
    rerunFed        \* beans fed since the last re-calibration (-1: none yet)

vars == <<DEBUG, st, elapsed, head, cell_err_acc, beanId, beanState,
          nextBeanId, waitingBeanId, gate, rollers, enabled, tx, pulses,
          capCount, defaulted, rerunFed>>

Slots == 0 .. (N_SLOTS - 1)

States == {"ST_HOME_WAIT", "ST_INIT", "ST_FEED_ROLL_START",
           "ST_FEED_ROLL_WAIT", "ST_STEP_ONE_CELL", "ST_CHECK_CAPTURE",
           "ST_WAIT_RESULT", "ST_CHECK_EJECT", "ST_NORMAL_EJECT_OPEN",
           "ST_NORMAL_EJECT_CLOSE_WAIT", "ST_ERROR"}

\* ------------------------------------------------------------------------
\* Arduino String operations on sequences of characters
\* ------------------------------------------------------------------------
DigitChars == <<"0", "1", "2", "3", "4", "5", "6", "7", "8", "9">>

IsSpace(c) == c \in {" ", "\r", "\t", "\n"}

IsDigit(c) == \E d \in 1 .. 10 : DigitChars[d] = c

DigitVal(c) == (CHOOSE d \in 1 .. 10 : DigitChars[d] = c) - 1

RECURSIVE trimLeft(_)
trimLeft(s) ==
    IF s # <<>> /\ IsSpace(Head(s)) THEN trimLeft(Tail(s)) ELSE s

RECURSIVE trimRight(_)
trimRight(s) ==
    IF s # <<>> /\ IsSpace(s[Len(s)])
    THEN trimRight(SubSeq(s, 1, Len(s) - 1))
    ELSE s

\* String::trim()
trim(s) == trimRight(trimLeft(s))

\* String::startsWith(p)
startsWith(s, p) == Len(s) >= Len(p) /\ SubSeq(s, 1, Len(p)) = p

\* String::indexOf(c, from): 0-based index of the first c at or after from, or -1
indexOf(s, c, from) ==
    LET hits == {i \in 0 .. (Len(s) - 1) : i >= from /\ s[i + 1] = c}
    IN  IF hits = {} THEN -1 ELSE CHOOSE i \in hits : \A j \in hits : i <= j

\* String::substring(from, to): characters from .. to-1 (0-based)
substring(s, from, to) == SubSeq(s, from + 1, to)

\* String::substring(from): to the end
substringFrom(s, from) == SubSeq(s, from + 1, Len(s))

RECURSIVE digitsValue(_, _)
digitsValue(s, acc) ==
    IF s # <<>> /\ IsDigit(Head(s))
    THEN digitsValue(Tail(s), 10 * acc + DigitVal(Head(s)))
    ELSE acc

\* String::toInt() (atol): leading white space, an optional sign, then the
\* leading digits; what follows them is ignored; no digits gives 0
toInt(s) ==
    LET t == trimLeft(s)
    IN  IF t # <<>> /\ Head(t) = "-" THEN 0 - digitsValue(Tail(t), 0)
        ELSE IF t # <<>> /\ Head(t) = "+" THEN digitsValue(Tail(t), 0)
        ELSE digitsValue(t, 0)

\* Serial.print(int) for n >= 0
RECURSIVE printInt(_)
printInt(n) ==
    IF n < 10 THEN <<DigitChars[n + 1]>>
    ELSE printInt(n \div 10) \o <<DigitChars[(n % 10) + 1]>>


\* ------------------------------------------------------------------------
\* The controller's state as one record, and the program's functions on it
\* ------------------------------------------------------------------------
cur ==
    [st |-> st, elapsed |-> elapsed, head |-> head,
     cell_err_acc |-> cell_err_acc, beanId |-> beanId,
     beanState |-> beanState, nextBeanId |-> nextBeanId,
     waitingBeanId |-> waitingBeanId, gate |-> gate, rollers |-> rollers,
     enabled |-> enabled, tx |-> tx, pulses |-> pulses]

\* Faulty variant: the mapping counts positions from 1.
slotIndexFromPos_OffByOne(s, pos) ==
    LET idx == s.head + pos + 1
    IN  idx % N_SLOTS

slotIndexFromPos(s, pos) ==
    LET idx == s.head + pos
    IN  idx % N_SLOTS

initSlots(s) ==
    [s EXCEPT !.beanId = [i \in Slots |-> -1],
              !.beanState = [i \in Slots |-> EMPTY],
              !.waitingBeanId = -1]

stepperEnable(s, en) == [s EXCEPT !.enabled = en]

\* moveMicrosteps after digitalWrite(PIN_DIR, dir): one pulse train
moveMicrosteps(s, dir, steps) ==
    [s EXCEPT !.pulses = Append(@, <<dir, steps>>)]

\* Faulty variant: head stepped the other way round the ring.
moveOneCell_HeadUp(s) ==
    LET acc1 == s.cell_err_acc + STEPS_CELL_REM
        carry == acc1 >= N_SLOTS
        steps == IF carry THEN STEPS_CELL_BASE + 1 ELSE STEPS_CELL_BASE
        acc2 == IF carry THEN acc1 - N_SLOTS ELSE acc1
        moved == moveMicrosteps([s EXCEPT !.cell_err_acc = acc2],
                                DIR_FORWARD, steps)
    IN  [moved EXCEPT !.head = (s.head + 1) % N_SLOTS]

\* Faulty variant: the carry of the remainder never adds its extra step.
moveOneCell_NoExtraStep(s) ==
    LET acc1 == s.cell_err_acc + STEPS_CELL_REM
        carry == acc1 >= N_SLOTS
        acc2 == IF carry THEN acc1 - N_SLOTS ELSE acc1
        moved == moveMicrosteps([s EXCEPT !.cell_err_acc = acc2],
                                DIR_FORWARD, STEPS_CELL_BASE)
    IN  [moved EXCEPT !.head = (s.head + N_SLOTS - 1) % N_SLOTS]

moveOneCell(s) ==
    LET acc1 == s.cell_err_acc + STEPS_CELL_REM
        carry == acc1 >= N_SLOTS
        steps == IF carry THEN STEPS_CELL_BASE + 1 ELSE STEPS_CELL_BASE
        acc2 == IF carry THEN acc1 - N_SLOTS ELSE acc1
        moved == moveMicrosteps([s EXCEPT !.cell_err_acc = acc2],
                                DIR_FORWARD, steps)
    IN  [moved EXCEPT !.head = IF DIR_FORWARD
                               THEN (s.head + N_SLOTS - 1) % N_SLOTS
                               ELSE (s.head + 1) % N_SLOTS]

constrain(x, lo, hi) == IF x < lo THEN lo ELSE IF x > hi THEN hi ELSE x

rollersStart(s, speed) ==
    [s EXCEPT !.rollers = STOP_360 + constrain(speed, 0, 40)]

rollersStop(s) == [s EXCEPT !.rollers = STOP_360]

gateWrite(s, angle) == [s EXCEPT !.gate = angle]

sendCaptureRequest(s, bean_id, pos) ==
    [s EXCEPT !.tx = <<"C", "A", "P", " ">> \o printInt(bean_id)
                     \o <<" ">> \o printInt(pos)]

parseResLine(line) ==
    LET p1 == indexOf(line, " ", 0)
        p2 == indexOf(line, " ", p1 + 1)
        bean_id == toInt(substring(line, p1 + 1, p2))
        cls == toInt(substringFrom(line, p2 + 1))
        no == [ok |-> FALSE, bean_id |-> 0, cls |-> 0]
    IN  IF ~startsWith(line, <<"R", "E", "S", " ">>) THEN no
        ELSE IF p1 < 0 \/ p2 < 0 THEN no
        ELSE IF bean_id <= 0 THEN no
        ELSE IF ~(cls = 0 \/ cls = 1) THEN no
        ELSE [ok |-> TRUE, bean_id |-> bean_id, cls |-> cls]

\* readLine: the trimmed line, empty when there is nothing to read
readLine(raw) == trim(raw)

\* Faulty variant: the search falls back on index 0 where the program
\* returns the sentinel -1.
findBeanIndexById_NoSentinel(s, bean_id) ==
    LET hits == {i \in Slots : s.beanId[i] = bean_id}
    IN  IF hits = {} THEN 0 ELSE CHOOSE i \in hits : \A j \in hits : i <= j

findBeanIndexById(s, bean_id) ==
    LET hits == {i \in Slots : s.beanId[i] = bean_id}
    IN  IF hits = {} THEN -1 ELSE CHOOSE i \in hits : \A j \in hits : i <= j

handleHomeJog(s, cmd) ==
    IF cmd = <<"a">> THEN moveMicrosteps(s, ~DIR_FORWARD, JOG_SMALL)
    ELSE IF cmd = <<"d">> THEN moveMicrosteps(s, DIR_FORWARD, JOG_SMALL)
    ELSE IF cmd = <<"A">> THEN moveMicrosteps(s, ~DIR_FORWARD, JOG_BIG)
    ELSE IF cmd = <<"D">> THEN moveMicrosteps(s, DIR_FORWARD, JOG_BIG)
    ELSE s

\* Faulty variant: HOME without the call of rollersStop().
cmdHome_RollersLeftOn(s) ==
    [gateWrite(s, NOR_CLOSE) EXCEPT !.st = "ST_HOME_WAIT"]

cmdHome(s) ==
    [gateWrite(rollersStop(s), NOR_CLOSE) EXCEPT !.st = "ST_HOME_WAIT"]

\* Faulty variant: ZERO without the test of st.
cmdZero_AnyState(s) ==
    LET fwd == moveMicrosteps(s, DIR_FORWARD, STEPS_CELL_BASE)
        rev == moveMicrosteps(fwd, ~DIR_FORWARD, STEPS_CELL_BASE)
        z == initSlots([rev EXCEPT !.head = 0, !.cell_err_acc = 0])
    IN  [z EXCEPT !.waitingBeanId = -1, !.st = "ST_INIT"]

\* Faulty variant: ZERO also restarts the id counter.
cmdZero_RestartsIds(s) ==
    IF s.st # "ST_HOME_WAIT" THEN s
    ELSE LET fwd == moveMicrosteps(s, DIR_FORWARD, STEPS_CELL_BASE)
             rev == moveMicrosteps(fwd, ~DIR_FORWARD, STEPS_CELL_BASE)
             z == initSlots([rev EXCEPT !.head = 0, !.cell_err_acc = 0])
         IN  [z EXCEPT !.waitingBeanId = -1, !.st = "ST_INIT",
                       !.nextBeanId = 0]

cmdZero(s) ==
    IF s.st # "ST_HOME_WAIT" THEN s
    ELSE LET fwd == moveMicrosteps(s, DIR_FORWARD, STEPS_CELL_BASE)
             rev == moveMicrosteps(fwd, ~DIR_FORWARD, STEPS_CELL_BASE)
             z == initSlots([rev EXCEPT !.head = 0, !.cell_err_acc = 0])
         IN  [z EXCEPT !.waitingBeanId = -1, !.st = "ST_INIT"]

cmdJog(s, line) ==
    IF s.st # "ST_HOME_WAIT" THEN s
    ELSE IF Len(line) < 5 THEN s
    ELSE handleHomeJog(s, trim(substringFrom(line, 4)))

\* handlePiCommand: whether the line was a command, and the state after it
handlePiCommand(s, line) ==
    IF line = <<"H", "E", "L", "P">> THEN [handled |-> TRUE, s |-> s]
    ELSE IF line = <<"H", "O", "M", "E">>
    THEN [handled |-> TRUE, s |-> cmdHome(s)]
    ELSE IF line = <<"Z", "E", "R", "O">>
    THEN [handled |-> TRUE, s |-> cmdZero(s)]
    ELSE IF startsWith(line, <<"J", "O", "G", " ">>)
    THEN [handled |-> TRUE, s |-> cmdJog(s, line)]
    ELSE [handled |-> FALSE, s |-> s]

\* Faulty variant: the RES handling without the release of waitingBeanId.
handleRes_KeepsPending(s, line) ==
    LET r == parseResLine(line)
        idx == findBeanIndexById(s, r.bean_id)
    IN  IF ~r.ok THEN s
        ELSE IF idx >= 0 THEN [s EXCEPT !.beanState[idx] = r.cls]
        ELSE s

\* loop(): the RES handling of a line that is no command
handleRes(s, line) ==
    LET r == parseResLine(line)
        idx == findBeanIndexById(s, r.bean_id)
    IN  IF ~r.ok THEN s
        ELSE IF idx >= 0
        THEN [s EXCEPT !.beanState[idx] = r.cls,
                       !.waitingBeanId =
                           IF @ = r.bean_id THEN -1 ELSE @]
        ELSE s

\* ------------------------------------------------------------------------
\* The cases of the FSM switch.  s.elapsed is millis() - t0 as this call
\* reads it; "t0 = millis()" sets it to 0.
\* ------------------------------------------------------------------------
setT0(s) == [s EXCEPT !.elapsed = 0]

\* Faulty variant: the home wait starts a feed by itself.
caseHomeWait_StartsFeed(s) ==
    [setT0(rollersStart(s, FEED_SPEED)) EXCEPT !.st = "ST_FEED_ROLL_WAIT"]

caseHomeWait(s) == s

caseInit(s) == [s EXCEPT !.st = "ST_FEED_ROLL_START"]

caseFeedRollStart(s) ==
    [setT0(rollersStart(s, FEED_SPEED)) EXCEPT !.st = "ST_FEED_ROLL_WAIT"]

\* Faulty variant: the feed registers the bean without testing position 0.
caseFeedRollWait_NoCheck(s) ==
    IF s.elapsed >= T_ROLL_MS
    THEN LET s1 == setT0(rollersStop(s))
             i0 == slotIndexFromPos(s1, 0)
             newId == s1.nextBeanId + 1
         IN  [s1 EXCEPT !.nextBeanId = newId,
                        !.beanId[i0] = newId,
                        !.beanState[i0] = ENTERED,
                        !.st = "ST_STEP_ONE_CELL"]
    ELSE s

\* Faulty variant: the feed registers the bean without stopping the rollers.
caseFeedRollWait_RollersLeftOn(s) ==
    IF s.elapsed >= T_ROLL_MS
    THEN LET s1 == setT0(s)
             i0 == slotIndexFromPos(s1, 0)
             newId == s1.nextBeanId + 1
         IN  IF s1.beanState[i0] # EMPTY
             THEN [s1 EXCEPT !.st = "ST_ERROR"]
             ELSE [s1 EXCEPT !.nextBeanId = newId,
                             !.beanId[i0] = newId,
                             !.beanState[i0] = ENTERED,
                             !.st = "ST_STEP_ONE_CELL"]
    ELSE s

caseFeedRollWait(s) ==
    IF s.elapsed >= T_ROLL_MS
    THEN LET s1 == setT0(rollersStop(s))
             i0 == slotIndexFromPos(s1, 0)
             newId == s1.nextBeanId + 1
         IN  IF s1.beanState[i0] # EMPTY
             THEN [s1 EXCEPT !.st = "ST_ERROR"]
             ELSE [s1 EXCEPT !.nextBeanId = newId,
                             !.beanId[i0] = newId,
                             !.beanState[i0] = ENTERED,
                             !.st = "ST_STEP_ONE_CELL"]
    ELSE s

caseStepOneCell(s) ==
    IF s.elapsed >= T_FEED_SETTLE_MS
    THEN [moveOneCell(s) EXCEPT !.st = "ST_CHECK_CAPTURE"]
    ELSE s

caseCheckCapture(s) ==
    LET ic == slotIndexFromPos(s, CAPTURE_POS)
        bid == s.beanId[ic]
    IN  IF s.beanState[ic] = ENTERED /\ s.beanId[ic] > 0
        THEN IF DEBUG = 1
             THEN [s EXCEPT !.beanState[ic] = NORMAL,
                            !.waitingBeanId = -1,
                            !.st = "ST_CHECK_EJECT"]
             ELSE [setT0(sendCaptureRequest(
                       [s EXCEPT !.beanState[ic] = CAPTURE_REQUESTED,
                                 !.waitingBeanId = bid],
                       bid, CAPTURE_POS))
                     EXCEPT !.st = "ST_WAIT_RESULT"]
        ELSE [s EXCEPT !.st = "ST_CHECK_EJECT"]

\* Faulty variant: the timeout defaults the bean but keeps the request.
caseWaitResult_TimeoutKeepsPending(s) ==
    IF s.waitingBeanId = -1
    THEN [s EXCEPT !.st = "ST_CHECK_EJECT"]
    ELSE IF s.elapsed >= WAIT_RES_TIMEOUT_MS
    THEN LET idx == findBeanIndexById(s, s.waitingBeanId)
             s1 == IF idx >= 0 THEN [s EXCEPT !.beanState[idx] = DEFECT]
                   ELSE s
         IN  [s1 EXCEPT !.st = "ST_CHECK_EJECT"]
    ELSE s

caseWaitResult(s) ==
    IF s.waitingBeanId = -1
    THEN [s EXCEPT !.st = "ST_CHECK_EJECT"]
    ELSE IF s.elapsed >= WAIT_RES_TIMEOUT_MS
    THEN LET idx == findBeanIndexById(s, s.waitingBeanId)
             s1 == IF idx >= 0 THEN [s EXCEPT !.beanState[idx] = DEFECT]
                   ELSE s
         IN  [s1 EXCEPT !.waitingBeanId = -1, !.st = "ST_CHECK_EJECT"]
    ELSE s

caseCheckEject(s) ==
    LET in == slotIndexFromPos(s, NORMAL_EJECT_POS)
        idn == s.beanId[in]
        sn == s.beanState[in]
        s1 == gateWrite(s, NOR_CLOSE)
        id == slotIndexFromPos(s1, DEFECT_EJECT_POS)
        bid == s1.beanId[id]
        sd == s1.beanState[id]
        s2 == IF sd # EMPTY /\ bid > 0
              THEN [s1 EXCEPT !.beanId[id] = -1, !.beanState[id] = EMPTY]
              ELSE s1
    IN  IF sn = NORMAL /\ idn > 0
        THEN [s EXCEPT !.st = "ST_NORMAL_EJECT_OPEN"]
        ELSE [s2 EXCEPT !.st = "ST_FEED_ROLL_START"]

caseNormalEjectOpen(s) ==
    [setT0(gateWrite(s, NOR_OPEN)) EXCEPT !.st = "ST_NORMAL_EJECT_CLOSE_WAIT"]

\* Faulty variant: the close wait without the clearing of the ejected slot.
caseNormalEjectCloseWait_NoClear(s) ==
    IF s.elapsed >= T_NOR_OPEN_MS
    THEN [gateWrite(s, NOR_CLOSE) EXCEPT !.st = "ST_FEED_ROLL_START"]
    ELSE s

caseNormalEjectCloseWait(s) ==
    IF s.elapsed >= T_NOR_OPEN_MS
    THEN LET s1 == gateWrite(s, NOR_CLOSE)
             in == slotIndexFromPos(s1, NORMAL_EJECT_POS)
         IN  [s1 EXCEPT !.beanId[in] = -1, !.beanState[in] = EMPTY,
                        !.st = "ST_FEED_ROLL_START"]
    ELSE s

caseError(s) == gateWrite(rollersStop(stepperEnable(s, FALSE)), NOR_CLOSE)

fsm(s) ==
    CASE s.st = "ST_HOME_WAIT" -> caseHomeWait(s)
      [] s.st = "ST_INIT" -> caseInit(s)
      [] s.st = "ST_FEED_ROLL_START" -> caseFeedRollStart(s)
      [] s.st = "ST_FEED_ROLL_WAIT" -> caseFeedRollWait(s)
      [] s.st = "ST_STEP_ONE_CELL" -> caseStepOneCell(s)
      [] s.st = "ST_CHECK_CAPTURE" -> caseCheckCapture(s)
      [] s.st = "ST_WAIT_RESULT" -> caseWaitResult(s)
      [] s.st = "ST_CHECK_EJECT" -> caseCheckEject(s)
      [] s.st = "ST_NORMAL_EJECT_OPEN" -> caseNormalEjectOpen(s)
      [] s.st = "ST_NORMAL_EJECT_CLOSE_WAIT" -> caseNormalEjectCloseWait(s)
      [] s.st = "ST_ERROR" -> caseError(s)

\* loop(): s is the state at entry with nothing printed or pulsed yet and
\* s.elapsed the reading of millis() - t0 during this call
loop(s, raw) ==
    LET line == readLine(raw)
        cmd == handlePiCommand(s, line)
    IN  IF line # <<>>
        THEN IF cmd.handled THEN cmd.s ELSE fsm(handleRes(s, line))
        ELSE fsm(s)

\* setup()
setup ==
    LET s0 == [st |-> "ST_INIT", elapsed |-> 0, head |-> 0,
               cell_err_acc |-> 0, beanId |-> [i \in Slots |-> -1],
               beanState |-> [i \in Slots |-> EMPTY], nextBeanId |-> 0,
               waitingBeanId |-> -1, gate |-> NOR_CLOSE,
               rollers |-> STOP_360, enabled |-> FALSE, tx |-> <<>>,
               pulses |-> <<>>]
        s1 == rollersStop(gateWrite(stepperEnable(s0, TRUE), NOR_CLOSE))
        s2 == initSlots(s1)
    IN  [s2 EXCEPT !.head = 0, !.nextBeanId = 0, !.cell_err_acc = 0,
                   !.st = "ST_HOME_WAIT"]

\* ------------------------------------------------------------------------
\* The environment: the host's lines and the clock
\* ------------------------------------------------------------------------
L_NONE == <<>>
L_HELP == <<"H", "E", "L", "P">>
L_HOME == <<"H", "O", "M", "E">>
L_HOME_CR == <<" ", "H", "O", "M", "E", "\r">>
L_ZERO == <<"Z", "E", "R", "O">>
L_JOG_a == <<"J", "O", "G", " ", "a">>
L_JOG_D == <<"J", "O", "G", " ", "D">>

\* the host's "RES <bean_id> <cls>"
ResLine(bean_id, cls) ==
    <<"R", "E", "S", " ">> \o printInt(bean_id) \o <<" ">> \o printInt(cls)

\* lines that are not of the form RES <bean_id> <cls>
L_RES_EXTRA == <<"R", "E", "S", " ", "1", " ", "1", " ", "0">>
L_RES_ALNUM == <<"R", "E", "S", " ", "1", "x", " ", "0">>
L_RES_CLS2 == <<"R", "E", "S", " ", "1", " ", "2">>
L_RES_NOID == <<"R", "E", "S", " ", "x", " ", "1">>
L_RES_SHORT == <<"R", "E", "S", " ", "1">>

MalformedLines ==
    {L_RES_EXTRA, L_RES_ALNUM, L_RES_CLS2, L_RES_NOID, L_RES_SHORT}

\* the malformed lines the host sends in a run
SentMalformed == {L_RES_EXTRA, L_RES_CLS2}

JogLines == {L_JOG_a}

\* beans HostStride apart are at the two eject positions together
HostStride == DEFECT_EJECT_POS - NORMAL_EJECT_POS

\* ids the host names in a RES line
HostIds == {1 + k * HostStride : k \in 0 .. (MaxHostBeans - 1)}

ResLines == {ResLine(b, c) : b \in HostIds, c \in {0, 1}}

\* lines handlePiCommand does not consume
DataLines == {L_NONE} \cup ResLines \cup SentMalformed

\* readings of millis() - t0, one per interval the deadlines cut out
AllReadings == {0, T_FEED_SETTLE_MS, T_ROLL_MS, WAIT_RES_TIMEOUT_MS}

\* the readings a run takes: no deadline reached yet, or all of them
Readings == {0, WAIT_RES_TIMEOUT_MS}

\* the CAP line of a bean
CapLine(bean_id) ==
    <<"C", "A", "P", " ">> \o printInt(bean_id) \o <<" ">>
        \o printInt(CAPTURE_POS)

\* ------------------------------------------------------------------------
\* Initial state and steps
\* ------------------------------------------------------------------------
Init ==
    /\ DEBUG \in {0, 1}
    /\ st = setup.st
    /\ elapsed = setup.elapsed
    /\ head = setup.head
    /\ cell_err_acc = setup.cell_err_acc
    /\ beanId = setup.beanId
    /\ beanState = setup.beanState
    /\ nextBeanId = setup.nextBeanId
    /\ waitingBeanId = setup.waitingBeanId
    /\ gate = setup.gate
    /\ rollers = setup.rollers
    /\ enabled = setup.enabled
    /\ tx = <<>>
    /\ pulses = <<>>
    /\ capCount = [i \in Slots |-> 0]
    /\ defaulted = [i \in Slots |-> FALSE]
    /\ rerunFed = -1

\* the state loop() starts from: the clock read, nothing printed or pulsed
entry(now) == [cur EXCEPT !.elapsed = now, !.tx = <<>>, !.pulses = <<>>]

\* this call accepts a ZERO command after beans have been fed
rezeroHit(s, line) ==
    line = L_ZERO /\ s.st = "ST_HOME_WAIT" /\ s.nextBeanId > 0

\* the bean whose request this call resolves by the timeout branch of
\* ST_WAIT_RESULT (-1: none): s is the state the switch starts from
timedOutBean(s) ==
    IF /\ s.st = "ST_WAIT_RESULT"
       /\ s.waitingBeanId # -1
       /\ s.elapsed >= WAIT_RES_TIMEOUT_MS
    THEN s.waitingBeanId
    ELSE -1

\* the bookkeeping of one call: s1 is the state loop() left, rezero whether
\* it re-calibrated, tob the bean it defaulted by timeout
Commit(s1, rezero, tob) ==
    LET fed == s1.nextBeanId - nextBeanId
        rerun == IF rezero THEN 0
                 ELSE IF rerunFed >= 0 THEN rerunFed + fed
                 ELSE rerunFed
    IN  /\ rerun <= MaxRerun
        /\ s1.nextBeanId <= MaxBeanId + (IF rerun >= 0 THEN MaxRerun ELSE 0)
        /\ st' = s1.st
        /\ elapsed' = s1.elapsed
        /\ head' = s1.head
        /\ cell_err_acc' = s1.cell_err_acc
        /\ beanId' = s1.beanId
        /\ beanState' = s1.beanState
        /\ nextBeanId' = s1.nextBeanId
        /\ waitingBeanId' = s1.waitingBeanId
        /\ gate' = s1.gate
        /\ rollers' = s1.rollers
        /\ enabled' = s1.enabled
        /\ tx' = s1.tx
        /\ pulses' = s1.pulses
        /\ capCount' =
               [i \in Slots |->
                   IF s1.beanId[i] = -1 THEN 0
                   ELSE IF s1.tx # <<>> /\ s1.tx = CapLine(s1.beanId[i])
                        THEN capCount[i] + 1
                        ELSE capCount[i]]
        /\ defaulted' =
               [i \in Slots |->
                   IF s1.beanId[i] = -1 THEN FALSE
                   ELSE defaulted[i] \/ s1.beanId[i] = tob]
        /\ rerunFed' = rerun
        /\ UNCHANGED DEBUG

\* one call of loop() reading raw, with the clock reading now
Iter(raw, now) ==
    \E s0 \in {entry(now)}, line \in {readLine(raw)} :
      \E cmd \in {line # <<>> /\ handlePiCommand(s0, line).handled} :
        \E sr \in {IF line # <<>> /\ ~cmd THEN handleRes(s0, line) ELSE s0} :
          Commit(loop(s0, raw), rezeroHit(s0, line),
                 IF cmd THEN -1 ELSE timedOutBean(sr))

\* a call that reads no command: a RES line, a malformed line or nothing
DataIter ==
    \E raw \in DataLines : \E now \in Readings :
        now >= elapsed /\ Iter(raw, now)

\* calls that read a command (the switch is not executed)
LoopHelp ==
    \E now \in Readings :
        /\ now >= elapsed
        /\ Iter(L_HELP, now)

LoopHome ==
    \E raw \in {L_HOME, L_HOME_CR} : \E now \in Readings :
        /\ now >= elapsed
        /\ Iter(raw, now)

LoopZero ==
    \E now \in Readings :
        /\ now >= elapsed
        /\ Iter(L_ZERO, now)

LoopJog ==
    \E raw \in JogLines : \E now \in Readings :
        /\ now >= elapsed
        /\ Iter(raw, now)

\* calls that read no command, by the case of the switch they execute
LoopHomeWait ==
    /\ st = "ST_HOME_WAIT"
    /\ DataIter

LoopInit ==
    /\ st = "ST_INIT"
    /\ DataIter

LoopFeedRollStart ==
    /\ st = "ST_FEED_ROLL_START"
    /\ DataIter

LoopFeedRollWait ==
    /\ st = "ST_FEED_ROLL_WAIT"
    /\ DataIter

LoopStepOneCell ==
    /\ st = "ST_STEP_ONE_CELL"
    /\ DataIter

LoopCheckCapture ==
    /\ st = "ST_CHECK_CAPTURE"
    /\ DataIter

LoopWaitResult ==
    /\ st = "ST_WAIT_RESULT"
    /\ DataIter

LoopCheckEject ==
    /\ st = "ST_CHECK_EJECT"
    /\ DataIter

LoopNormalEjectOpen ==
    /\ st = "ST_NORMAL_EJECT_OPEN"
    /\ DataIter

LoopNormalEjectCloseWait ==
    /\ st = "ST_NORMAL_EJECT_CLOSE_WAIT"
    /\ DataIter

LoopError ==
    /\ st = "ST_ERROR"
    /\ DataIter

Next ==
    \/ LoopHelp
    \/ LoopHome
    \/ LoopZero
    \/ LoopJog
    \/ LoopHomeWait
    \/ LoopInit
    \/ LoopFeedRollStart
    \/ LoopFeedRollWait
    \/ LoopStepOneCell
    \/ LoopCheckCapture
    \/ LoopWaitResult
    \/ LoopCheckEject
    \/ LoopNormalEjectOpen
    \/ LoopNormalEjectCloseWait
    \/ LoopError

Spec == Init /\ [][Next]_vars

TypeOK ==
    /\ DEBUG \in {0, 1}
    /\ st \in States
    /\ elapsed \in Readings
    /\ head \in Slots
    /\ cell_err_acc \in 0 .. (N_SLOTS - 1)
    /\ nextBeanId \in 0 .. (MaxBeanId + MaxRerun)
    /\ rerunFed \in -1 .. MaxRerun

\* ------------------------------------------------------------------------
\* Vocabulary of the properties
\* ------------------------------------------------------------------------
\* the slot at logical position p
SlotAt(p) == (head + p) % N_SLOTS

\* the logical position of slot i
PosOf(i) == (i - head + N_SLOTS) % N_SLOTS

Occupied(i) == beanState[i] # EMPTY

\* a step that accepts ZERO (the only way from ST_HOME_WAIT to ST_INIT)
ZeroAccepted == st = "ST_HOME_WAIT" /\ st' = "ST_INIT"

\* the per-bean state changes of the data model
Forward ==
    {<<EMPTY, ENTERED>>, <<ENTERED, CAPTURE_REQUESTED>>,
     <<CAPTURE_REQUESTED, NORMAL>>, <<CAPTURE_REQUESTED, DEFECT>>,
     <<NORMAL, EMPTY>>, <<DEFECT, EMPTY>>}

\* ------------------------------------------------------------------------
\* C1 - Every bean is destroyed at its terminal eject position: whatever
\* reaches the defect-eject position is cleared there, so (stated for the
\* production build) no slot at a logical position beyond DEFECT_EJECT_POS
\* is ever occupied.
\* ------------------------------------------------------------------------
C1_NothingBeyondDefectEject ==
    DEBUG = 0 =>
        \A p \in (DEFECT_EJECT_POS + 1) .. (N_SLOTS - 1) :
            beanState[SlotAt(p)] = EMPTY /\ beanId[SlotAt(p)] = -1

\* ------------------------------------------------------------------------
\* C2 - In the production build every change of a slot's beanState is one
\* of Empty->Entered, Entered->CaptureRequested, CaptureRequested->Normal,
\* CaptureRequested->Defect, Normal->Empty, Defect->Empty, apart from the
\* wholesale reset of an accepted ZERO.
\* ------------------------------------------------------------------------
C2_ForwardOnly ==
    [][(DEBUG = 0 /\ ~ZeroAccepted) =>
          \A i \in Slots :
              \/ beanState'[i] = beanState[i]
              \/ <<beanState[i], beanState'[i]>> \in Forward]_vars

\* ------------------------------------------------------------------------
\* C3 - A request resolved by the timeout stays resolved that way: the bean
\* it defaulted to Defect is Defect for as long as it is in the ring (no
\* later RES reclassifies it).
\* ------------------------------------------------------------------------
C3_TimeoutIsFinal ==
    \A i \in Slots : defaulted[i] => beanState[i] = DEFECT

\* ------------------------------------------------------------------------
\* C4 - A pending capture request ends only with its bean classified: by a
\* RES naming it, or else by the timeout defaulting it to Defect, under
\* every interleaving of other lines and commands.
\* ------------------------------------------------------------------------
C4_PendingEndsClassified ==
    [][(waitingBeanId # -1 /\ waitingBeanId' # waitingBeanId) =>
          \E i \in Slots :
              /\ beanId'[i] = waitingBeanId
              /\ beanState'[i] \in {DEFECT, NORMAL}]_vars

\* ------------------------------------------------------------------------
\* C5 - Error is terminal: once the FSM state is ST_ERROR it is ST_ERROR
\* after every later call of loop(), whatever line that call reads.
\* ------------------------------------------------------------------------
C5_ErrorIsTerminal ==
    [][st = "ST_ERROR" => st' = "ST_ERROR"]_vars

\* ------------------------------------------------------------------------
\* C6 - From every reachable state and for every clock reading, a call of
\* loop() that reads HOME leaves st = ST_HOME_WAIT, the rollers stopped and
\* the gate closed and changes nothing else: no case of the switch runs
\* (the clock base, the driver enable, the pending id are as they were,
\* nothing is printed or pulsed) and head, the slot table, the remainder
\* accumulator and the id counter are unchanged.
\* ------------------------------------------------------------------------
C6_HomePreempts ==
    \A raw \in {L_HOME, L_HOME_CR} : \A now \in AllReadings :
        loop(entry(now), raw) =
            [entry(now) EXCEPT !.st = "ST_HOME_WAIT",
                               !.rollers = STOP_360,
                               !.gate = NOR_CLOSE]

\* a state only HOME leads to: waiting for ZERO with beans on a turned ring
C6_Witness ==
    /\ st = "ST_HOME_WAIT"
    /\ head # 0
    /\ \E i \in Slots : Occupied(i)
    /\ rollers = STOP_360
    /\ gate = NOR_CLOSE
    /\ loop(entry(0), L_HOME).st = "ST_HOME_WAIT"

\* ------------------------------------------------------------------------
\* C7 - In every reachable state, a well-formed RES line whose bean_id is
\* the id of no slot changes nothing: the RES handling leaves the state as
\* it was, and the call of loop() that reads it ends as the call that reads
\* nothing.
\* ------------------------------------------------------------------------
UnknownIds == {b \in 1 .. (nextBeanId + 1) : \A i \in Slots : beanId[i] # b}

C7_UnknownResNoEffect ==
    \A s \in {cur} : \A s0 \in {entry(elapsed)} :
        \A idle \in {loop(s0, L_NONE)} :
            \A b \in UnknownIds : \A c \in {0, 1} :
                \A line \in {ResLine(b, c)} :
                    /\ parseResLine(line).ok
                    /\ handleRes(s, line) = s
                    /\ loop(s0, line) = idle

\* a request is pending, other beans are in the ring, and bean 1 has left it
C7_Witness ==
    /\ st = "ST_WAIT_RESULT"
    /\ waitingBeanId > 1
    /\ 1 \in UnknownIds
    /\ Cardinality({i \in Slots : Occupied(i)}) > 1
    /\ handleRes(cur, ResLine(1, 1)) = cur

\* ------------------------------------------------------------------------
\* C8 - In the production build each bean gets exactly one classification
\* attempt: no bean has had more than one CAP line, and every bean that has
\* been carried past the capture position has had one.
\* ------------------------------------------------------------------------
C8_OneCapturePerBean ==
    DEBUG = 0 =>
        \A i \in Slots :
            Occupied(i) =>
                /\ capCount[i] <= 1
                /\ PosOf(i) > CAPTURE_POS => capCount[i] = 1

\* ------------------------------------------------------------------------
\* C9 - At most one classification request is outstanding: at most one slot
\* is CaptureRequested, a CaptureRequested slot holds the pending id, and a
\* pending id names a bean of the ring that is CaptureRequested.
\* ------------------------------------------------------------------------
C9_OneOutstandingRequest ==
    /\ Cardinality({i \in Slots : beanState[i] = CAPTURE_REQUESTED}) <= 1
    /\ \A i \in Slots :
           beanState[i] = CAPTURE_REQUESTED => beanId[i] = waitingBeanId
    /\ waitingBeanId # -1 =>
           \E i \in Slots :
               /\ beanId[i] = waitingBeanId
               /\ beanState[i] = CAPTURE_REQUESTED

\* a request is outstanding while classified beans are in the ring
C9_Witness ==
    /\ st = "ST_WAIT_RESULT"
    /\ waitingBeanId # -1
    /\ beanState[SlotAt(CAPTURE_POS)] = CAPTURE_REQUESTED
    /\ beanId[SlotAt(CAPTURE_POS)] = waitingBeanId
    /\ \E i \in Slots : beanState[i] = NORMAL
    /\ \E i \in Slots : beanState[i] = DEFECT

\* ------------------------------------------------------------------------
\* C10 - A Normal bean at the normal-eject position is ejected through the
\* gate: ST_CHECK_EJECT goes to ST_NORMAL_EJECT_OPEN exactly when it finds
\* one there; ST_NORMAL_EJECT_OPEN commands the gate open; the close wait
\* ends with the gate commanded closed and the slot at the normal-eject
\* position cleared before ST_FEED_ROLL_START; and the carousel is not
\* advanced from the check to the clear.
\* ------------------------------------------------------------------------
NormalAtEject ==
    /\ beanState[SlotAt(NORMAL_EJECT_POS)] = NORMAL
    /\ beanId[SlotAt(NORMAL_EJECT_POS)] > 0

C10_NormalEject ==
    [][/\ (st = "ST_CHECK_EJECT" /\ st' = "ST_NORMAL_EJECT_OPEN") =>
              NormalAtEject' /\ beanId' = beanId
       /\ (st = "ST_CHECK_EJECT" /\ st' = "ST_FEED_ROLL_START") =>
              ~NormalAtEject'
       /\ (st = "ST_NORMAL_EJECT_OPEN" /\ st' # st) =>
              \/ st' = "ST_NORMAL_EJECT_CLOSE_WAIT" /\ gate' = NOR_OPEN
              \/ st' = "ST_HOME_WAIT" /\ gate' = NOR_CLOSE
       /\ (st = "ST_NORMAL_EJECT_CLOSE_WAIT" /\ st' # st) =>
              \/ /\ st' = "ST_FEED_ROLL_START"
                 /\ gate' = NOR_CLOSE
                 /\ beanId'[SlotAt(NORMAL_EJECT_POS)] = -1
                 /\ beanState'[SlotAt(NORMAL_EJECT_POS)] = EMPTY
              \/ st' = "ST_HOME_WAIT" /\ gate' = NOR_CLOSE
       /\ gate' = NOR_OPEN => st' = "ST_NORMAL_EJECT_CLOSE_WAIT"
       /\ st \in {"ST_CHECK_EJECT", "ST_NORMAL_EJECT_OPEN",
                  "ST_NORMAL_EJECT_CLOSE_WAIT"} => head' = head]_vars

\* the first bean of an uninterrupted run has just been ejected at the
\* normal-eject position, eight advances after its insertion
C10_Witness ==
    /\ st = "ST_FEED_ROLL_START"
    /\ rerunFed = -1
    /\ nextBeanId = NORMAL_EJECT_POS
    /\ head = (N_SLOTS - NORMAL_EJECT_POS) % N_SLOTS
    /\ beanState[SlotAt(NORMAL_EJECT_POS)] = EMPTY
    /\ beanId[SlotAt(NORMAL_EJECT_POS)] = -1
    /\ Occupied(SlotAt(NORMAL_EJECT_POS - 1))
    /\ gate = NOR_CLOSE

\* k consecutive calls of moveOneCell
RECURSIVE moveCells(_, _)
moveCells(s, k) == IF k = 0 THEN s ELSE moveCells(moveOneCell(s), k - 1)

\* the microsteps of a sequence of pulse trains
RECURSIVE SumSteps(_)
SumSteps(ps) == IF ps = <<>> THEN 0 ELSE ps[1][2] + SumSteps(Tail(ps))

\* ------------------------------------------------------------------------
\* C11 - For every head value, a bean registered at logical position 0 is,
\* after exactly k calls of moveOneCell, in the slot slotIndexFromPos maps
\* logical position k mod N_SLOTS to, and at no other logical position: at
\* the capture position after 2 calls, at the normal-eject position after
\* 8, at the defect-eject position after 11.  The calls move no slot data.
\* ------------------------------------------------------------------------
C11_BeanFollowsAdvance ==
    (st = "ST_STEP_ONE_CELL" /\ Occupied(SlotAt(0))) =>
        \A s0 \in {[cur EXCEPT !.pulses = <<>>]} :
            \A i0 \in {slotIndexFromPos(s0, 0)} :
                \A k \in 0 .. N_SLOTS :
                    \A sk \in {moveCells(s0, k)} :
                        /\ slotIndexFromPos(sk, k % N_SLOTS) = i0
                        /\ \A p \in Slots :
                               slotIndexFromPos(sk, p) = i0 =>
                                   p = k % N_SLOTS
                        /\ sk.beanId = s0.beanId
                        /\ sk.beanState = s0.beanState

\* the first bean of an uninterrupted run, 11 advances after its insertion,
\* is at the defect-eject position, the bean inserted 8 advances ago at the
\* normal-eject position and the one inserted 2 advances ago at the
\* capture position
C11_Witness ==
    /\ st = "ST_CHECK_CAPTURE"
    /\ rerunFed = -1
    /\ nextBeanId = DEFECT_EJECT_POS
    /\ beanId[SlotAt(DEFECT_EJECT_POS)] = 1
    /\ beanId[SlotAt(NORMAL_EJECT_POS)] =
           1 + DEFECT_EJECT_POS - NORMAL_EJECT_POS
    /\ beanId[SlotAt(CAPTURE_POS)] = 1 + DEFECT_EJECT_POS - CAPTURE_POS

\* ------------------------------------------------------------------------
\* C12 - The remainder accumulator stays in [0, N_SLOTS); and from every
\* value it has when an advance is due, the next N_SLOTS calls of
\* moveOneCell issue STEPS_PER_REV microsteps in all, STEPS_CELL_REM of the
\* calls issuing STEPS_CELL_BASE + 1 and the others STEPS_CELL_BASE, and
\* bring the accumulator back to the value it started from.
\* ------------------------------------------------------------------------
C12_StepsPerRevolution ==
    /\ cell_err_acc \in 0 .. (N_SLOTS - 1)
    /\ st = "ST_STEP_ONE_CELL" =>
           \A s0 \in {[cur EXCEPT !.pulses = <<>>]} :
               \A sN \in {moveCells(s0, N_SLOTS)} :
                   /\ Len(sN.pulses) = N_SLOTS
                   /\ \A j \in 1 .. N_SLOTS : sN.pulses[j][1] = DIR_FORWARD
                   /\ SumSteps(sN.pulses) = STEPS_PER_REV
                   /\ Cardinality({j \in 1 .. N_SLOTS :
                          sN.pulses[j][2] = STEPS_CELL_BASE + 1})
                        = STEPS_CELL_REM
                   /\ Cardinality({j \in 1 .. N_SLOTS :
                          sN.pulses[j][2] = STEPS_CELL_BASE})
                        = N_SLOTS - STEPS_CELL_REM
                   /\ sN.cell_err_acc = s0.cell_err_acc
                   /\ \A k \in 0 .. N_SLOTS :
                          moveCells(s0, k).cell_err_acc \in 0 .. (N_SLOTS - 1)

\* an advance of a run has just carried: it issued the extra microstep and
\* the accumulator is back at 0
C12_Witness ==
    /\ st = "ST_CHECK_CAPTURE"
    /\ pulses = <<<<DIR_FORWARD, STEPS_CELL_BASE + 1>>>>
    /\ cell_err_acc = 0
    /\ nextBeanId = N_SLOTS

\* ------------------------------------------------------------------------
\* C13 - ZERO is effective only in ST_HOME_WAIT.  Read there, the call of
\* loop() sets head and the remainder accumulator to 0, every slot to
\* (none, Empty), the pending id to none and st to ST_INIT; read in any
\* other state, the call changes nothing at all and issues no pulse.
\* ------------------------------------------------------------------------
C13_ZeroOnlyInHomeWait ==
    \A now \in AllReadings :
        \A s0 \in {entry(now)} :
            \A s1 \in {loop(s0, L_ZERO)} :
                IF st = "ST_HOME_WAIT"
                THEN /\ s1.head = 0
                     /\ s1.cell_err_acc = 0
                     /\ \A i \in Slots :
                            s1.beanId[i] = -1 /\ s1.beanState[i] = EMPTY
                     /\ s1.waitingBeanId = -1
                     /\ s1.st = "ST_INIT"
                ELSE /\ s1 = s0
                     /\ s1.pulses = <<>>

\* ZERO has been accepted after a production run was sent home
C13_Witness ==
    /\ st = "ST_INIT"
    /\ nextBeanId > 0
    /\ rerunFed = 0
    /\ head = 0
    /\ cell_err_acc = 0
    /\ \A i \in Slots : beanId[i] = -1 /\ beanState[i] = EMPTY
    /\ waitingBeanId = -1
    /\ pulses = <<<<DIR_FORWARD, STEPS_CELL_BASE>>,
                  <<~DIR_FORWARD, STEPS_CELL_BASE>>>>

\* ------------------------------------------------------------------------
\* C14 - Production does not start before calibration: the FSM starts in
\* ST_HOME_WAIT, and a step taken in ST_HOME_WAIT either stays there or is
\* the accepted ZERO; it starts no roller, changes neither head nor the id
\* counter, registers no bean and sends no capture request.  Whenever
\* ST_HOME_WAIT is entered (at start or by HOME) the rollers are stopped.
\* ------------------------------------------------------------------------
C14_NoProductionBeforeZero ==
    /\ st = "ST_HOME_WAIT" /\ rollers = STOP_360 /\ nextBeanId = 0
    /\ [][/\ st' = "ST_HOME_WAIT" => rollers' = STOP_360
          /\ st = "ST_HOME_WAIT" =>
                /\ st' = "ST_HOME_WAIT" \/ ZeroAccepted
                /\ rollers' = STOP_360
                /\ tx' = <<>>
                /\ nextBeanId' = nextBeanId
                /\ \A i \in Slots : beanId'[i] \in {beanId[i], -1}
                /\ \A i \in Slots : beanState'[i] # ENTERED
                                       \/ beanState[i] = ENTERED
                /\ head' = head \/ (ZeroAccepted /\ head' = 0)]_vars

\* a run sent home with beans in the ring is still waiting, jogged, after
\* the response deadline has gone by
C14_Witness ==
    /\ st = "ST_HOME_WAIT"
    /\ nextBeanId > 0
    /\ head # 0
    /\ \E i \in Slots : Occupied(i)
    /\ elapsed = WAIT_RES_TIMEOUT_MS
    /\ pulses = <<<<~DIR_FORWARD, JOG_SMALL>>>>

\* ------------------------------------------------------------------------
\* C15 - Bean ids are positive and handed out in strictly increasing order
\* of registration, also across ZERO (which does not restart the counter):
\* a slot's id is none exactly when its state is Empty, an id in the ring
\* is in 1 .. nextBeanId, no two occupied slots hold the same id, the
\* counter never decreases, and a slot that gets an id gets the counter's
\* next value.
\* ------------------------------------------------------------------------
C15_IdsOk ==
    /\ \A i \in Slots : (beanId[i] = -1) <=> (beanState[i] = EMPTY)
    /\ \A i \in Slots : beanId[i] # -1 => beanId[i] \in 1 .. nextBeanId
    /\ \A i, j \in Slots : (i # j /\ beanId[i] # -1) => beanId[i] # beanId[j]

C15_IdsStep ==
    /\ nextBeanId' \in {nextBeanId, nextBeanId + 1}
    /\ \A i \in Slots :
           (beanId'[i] # beanId[i] /\ beanId'[i] # -1) =>
               /\ beanId'[i] = nextBeanId + 1
               /\ nextBeanId' = nextBeanId + 1
    /\ nextBeanId' # nextBeanId =>
           Cardinality({i \in Slots : beanId'[i] = nextBeanId'}) = 1

C15_UniqueIncreasingIds == [](C15_IdsOk) /\ [][C15_IdsStep]_vars

\* the first bean registered after a re-calibration carries on the numbering
C15_Witness ==
    /\ rerunFed = 1
    /\ nextBeanId > 1
    /\ st = "ST_STEP_ONE_CELL"
    /\ beanId[SlotAt(0)] = nextBeanId
    /\ beanState[SlotAt(0)] = ENTERED
    /\ Cardinality({i \in Slots : Occupied(i)}) = 1

\* ------------------------------------------------------------------------
\* C16 - In every reachable state head is in [0, N_SLOTS); for the current
\* head, slotIndexFromPos(p) = (head + p) mod N_SLOTS lies in [0, N_SLOTS)
\* for every logical position p and p -> slotIndexFromPos(p) is a bijection
\* of the positions onto the slots.  A call of moveOneCell turns head back
\* by one (mod N_SLOTS) and leaves every slot's data in its array cell (of
\* the state it changes nothing else but the remainder accumulator of C12
\* and the pulses it issues); in a run head changes only that way or by the
\* accepted ZERO.
\* ------------------------------------------------------------------------
C16_MappingOk ==
    /\ head \in Slots
    /\ \A s \in {cur} :
           /\ \A p \in Slots :
                  /\ slotIndexFromPos(s, p) \in Slots
                  /\ slotIndexFromPos(s, p) = (head + p) % N_SLOTS
           /\ \A p, q \in Slots :
                  slotIndexFromPos(s, p) = slotIndexFromPos(s, q) => p = q
           /\ \A i \in Slots : \E p \in Slots : slotIndexFromPos(s, p) = i
           /\ \A s1 \in {moveOneCell(s)} :
                  /\ s1.head = (head + N_SLOTS - 1) % N_SLOTS
                  /\ s1 = [s EXCEPT !.head = s1.head,
                                    !.cell_err_acc = s1.cell_err_acc,
                                    !.pulses = s1.pulses]

C16_HeadStep ==
    head' # head =>
        \/ /\ st = "ST_STEP_ONE_CELL"
           /\ head' = (head + N_SLOTS - 1) % N_SLOTS
           /\ beanId' = beanId
        \/ ZeroAccepted /\ head' = 0

C16_HeadAndMapping == [](C16_MappingOk) /\ [][C16_HeadStep]_vars

\* the ring has been turned once round: head is back at 0 and the bean
\* registered last has been carried to position 1
C16_Witness ==
    /\ st = "ST_CHECK_CAPTURE"
    /\ rerunFed = -1
    /\ head = 0
    /\ nextBeanId = N_SLOTS
    /\ beanId[SlotAt(1)] = N_SLOTS
    /\ slotIndexFromPos(cur, N_SLOTS - 1) = N_SLOTS - 1

\* ------------------------------------------------------------------------
\* C17 - In the production build every malformed line (an extra trailing
\* field, a field with non-numeric characters, a class outside {0, 1}, a
\* missing field) is discarded: the RES handling changes no slot state and not the pending
\* id, even when the line names a bean of the ring, and the call of loop()
\* that reads it ends as the call that reads nothing.
\* ------------------------------------------------------------------------
C17_MalformedDiscarded ==
    DEBUG = 0 =>
        \A s \in {cur} : \A s0 \in {entry(elapsed)} :
            \A line \in MalformedLines :
                /\ handleRes(s, line).beanState = s.beanState
                /\ handleRes(s, line).waitingBeanId = s.waitingBeanId
                /\ loop(s0, line) = loop(s0, L_NONE)

\* ------------------------------------------------------------------------
\* C18 - The ST_CHECK_CAPTURE step: if the slot at the capture position
\* holds a bean in state Entered, the step marks it CaptureRequested, sets
\* the pending id to its id, sends "CAP <id> <CAPTURE_POS>" and goes to
\* ST_WAIT_RESULT without moving head; otherwise it changes no slot and
\* goes to ST_CHECK_EJECT.
\* ------------------------------------------------------------------------
C18_CheckCaptureStep ==
    st = "ST_CHECK_CAPTURE" =>
        \A now \in AllReadings :
            \A s0 \in {entry(now)} : \A s1 \in {fsm(s0)} :
                \A ic \in {slotIndexFromPos(s0, CAPTURE_POS)} :
                    IF s0.beanState[ic] = ENTERED /\ s0.beanId[ic] > 0
                    THEN /\ s1.beanState =
                                [s0.beanState EXCEPT ![ic] = CAPTURE_REQUESTED]
                         /\ s1.beanId = s0.beanId
                         /\ s1.waitingBeanId = s0.beanId[ic]
                         /\ s1.tx = CapLine(s0.beanId[ic])
                         /\ s1.st = "ST_WAIT_RESULT"
                         /\ s1.head = s0.head
                    ELSE /\ s1.beanState = s0.beanState
                         /\ s1.beanId = s0.beanId
                         /\ s1.tx = <<>>
                         /\ s1.st = "ST_CHECK_EJECT"

\* ------------------------------------------------------------------------
\* C19 - The ST_FEED_ROLL_WAIT step once the feed deadline has elapsed: if
\* the slot at logical position 0 is not empty the FSM goes to ST_ERROR
\* with the rollers stopped and no slot, id counter or head changed;
\* otherwise exactly the slot at position 0 becomes (nextBeanId + 1,
\* Entered), the counter takes that value, every other slot is unchanged
\* and the FSM goes to ST_STEP_ONE_CELL.  Before the deadline the step
\* changes nothing.
\* ------------------------------------------------------------------------
C19_FeedStep ==
    st = "ST_FEED_ROLL_WAIT" =>
        \A now \in AllReadings :
            \A s0 \in {entry(now)} : \A s1 \in {fsm(s0)} :
                \A i0 \in {slotIndexFromPos(s0, 0)} :
                    IF now < T_ROLL_MS THEN s1 = s0
                    ELSE IF s0.beanState[i0] # EMPTY
                    THEN s1 = [s0 EXCEPT !.st = "ST_ERROR",
                                         !.rollers = STOP_360,
                                         !.elapsed = 0]
                    ELSE s1 = [s0 EXCEPT !.st = "ST_STEP_ONE_CELL",
                                         !.rollers = STOP_360,
                                         !.elapsed = 0,
                                         !.nextBeanId = s0.nextBeanId + 1,
                                         !.beanId[i0] = s0.nextBeanId + 1,
                                         !.beanState[i0] = ENTERED]

\* the feed has found position 0 occupied: the FSM is in ST_ERROR, the
\* rollers stopped, the slot at position 0 still holding its bean
C19_Witness ==
    /\ st = "ST_ERROR"
    /\ enabled
    /\ rollers = STOP_360
    /\ Occupied(SlotAt(0))
    /\ beanId[SlotAt(0)] < nextBeanId
    /\ elapsed = 0

\* ------------------------------------------------------------------------
\* C20 - The gate is commanded open only for a Normal bean: whenever (in
\* the production build) the gate is commanded open, the slot at the
\* normal-eject position holds a bean whose state is Normal (never a Defect bean), under every
\* interleaving of RES lines with the FSM steps.
\* ------------------------------------------------------------------------
C20_GateOpenOnlyForNormal ==
    (DEBUG = 0 /\ gate = NOR_OPEN) =>
        /\ beanState[SlotAt(NORMAL_EJECT_POS)] = NORMAL
        /\ beanId[SlotAt(NORMAL_EJECT_POS)] > 0

\* ------------------------------------------------------------------------
\* C21 - Logical and physical carousel position never diverge: every
\* one-cell advance that updates head is performed while the stepper
\* driver is enabled; once the driver has been disabled (in ST_ERROR) no
\* later step advances the carousel.
\* ------------------------------------------------------------------------
C21_AdvanceOnlyEnabled ==
    [][(st = "ST_STEP_ONE_CELL" /\ head' # head) => enabled]_vars

\* ------------------------------------------------------------------------
\* C22 - A stale pending request never leaks into production: between two
\* calls of loop() the pending id is not none only if st is ST_WAIT_RESULT
\* or ST_HOME_WAIT, and if st is ST_WAIT_RESULT the pending id is not none.
\* A run sent home during an outstanding request re-enters production (by
\* the accepted ZERO) with no pending id.
\* ------------------------------------------------------------------------
C22_PendingOk ==
    /\ waitingBeanId # -1 => st \in {"ST_WAIT_RESULT", "ST_HOME_WAIT"}
    /\ st = "ST_WAIT_RESULT" => waitingBeanId # -1

C22_LeaveHome ==
    (st = "ST_HOME_WAIT" /\ st' # "ST_HOME_WAIT") => waitingBeanId' = -1

C22_NoStalePending == [](C22_PendingOk) /\ [][C22_LeaveHome]_vars

\* a run was sent home during an outstanding request: the request is
\* still pending in ST_HOME_WAIT after the response deadline has gone by
C22_Witness ==
    /\ st = "ST_HOME_WAIT"
    /\ waitingBeanId # -1
    /\ elapsed = WAIT_RES_TIMEOUT_MS
    /\ \E i \in Slots :
           /\ beanId[i] = waitingBeanId
           /\ beanState[i] = CAPTURE_REQUESTED
           /\ PosOf(i) = CAPTURE_POS

\* the jog lines of the protocol and HOME
L_JOG_d == <<"J", "O", "G", " ", "d">>
L_JOG_A == <<"J", "O", "G", " ", "A">>
HomeAndJogLines == {L_HOME, L_HOME_CR, L_JOG_a, L_JOG_d, L_JOG_A, L_JOG_D}

\* ------------------------------------------------------------------------
\* C23 - Actuator commands are coupled to the FSM states between calls of
\* loop(): the rollers are commanded running only while st is
\* ST_FEED_ROLL_WAIT, the gate is commanded open only while st is
\* ST_NORMAL_EJECT_CLOSE_WAIT; head changes only by the advance of
\* ST_STEP_ONE_CELL, made with the rollers stopped and the gate closed, or
\* by the accepted ZERO; and a call of loop() that reads a JOG line or
\* HOME changes neither head nor the remainder accumulator.
\* ------------------------------------------------------------------------
C23_ActuatorsOk ==
    /\ rollers # STOP_360 => st = "ST_FEED_ROLL_WAIT"
    /\ gate = NOR_OPEN => st = "ST_NORMAL_EJECT_CLOSE_WAIT"
    /\ gate \in {NOR_CLOSE, NOR_OPEN}
    /\ \A s0 \in {entry(elapsed)} :
           \A line \in HomeAndJogLines :
               \A s1 \in {loop(s0, line)} :
                   /\ s1.head = s0.head
                   /\ s1.cell_err_acc = s0.cell_err_acc

C23_AdvanceStep ==
    (head' # head \/ cell_err_acc' # cell_err_acc) =>
        \/ /\ st = "ST_STEP_ONE_CELL"
           /\ st' = "ST_CHECK_CAPTURE"
           /\ rollers = STOP_360 /\ rollers' = STOP_360
           /\ gate = NOR_CLOSE /\ gate' = NOR_CLOSE
           /\ Len(pulses') = 1
        \/ ZeroAccepted

C23_ActuatorsFollowStates == [](C23_ActuatorsOk) /\ [][C23_AdvanceStep]_vars

\* the rollers are running for the feed of a later cycle, the gate closed
C23_Witness ==
    /\ st = "ST_FEED_ROLL_WAIT"
    /\ rollers = STOP_360 + FEED_SPEED
    /\ gate = NOR_CLOSE
    /\ head = N_SLOTS - NORMAL_EJECT_POS
    /\ nextBeanId = NORMAL_EJECT_POS
    /\ beanState[SlotAt(NORMAL_EJECT_POS)] = EMPTY
    /\ pulses = <<>>
=============================================================================
